---- MODULE Spec2Model ----
(***************************************************************************)
(* A model of minvis/video_maskformer_model.py: the windowed inference     *)
(* driver (VideoMaskFormer_frame.run_window_inference), the recurrent      *)
(* QueryTracker it calls, the cross-frame matcher (match_from_embds_,      *)
(* post_processing_) and the video-level post-processor (inference_video). *)
(*                                                                         *)
(* Tensors are modelled by their index structure.  The time axis is a      *)
(* sequence (position t+1 holds frame t), the query axis a function over   *)
(* 0..nq-1, the class axis a function over 0..num_classes.  The batch axis *)
(* has size 1 throughout inference and is left implicit; the channel axis  *)
(* of the tracker is collapsed to one residue modulo Modulus, and every    *)
(* learned layer is a fixed, non-identity map on those residues (the       *)
(* weights are loaded once and never change during inference).             *)
(***************************************************************************)
EXTENDS Integers, Sequences, FiniteSets, TLC

(***************************************************************************)
(* Bounds of the model.                                                    *)
(***************************************************************************)
Modulus == 7
MaxFrames == 5
MaxWindow == 4
MaxPixel == 1
NumQueries == 2
NumClasses == 2
NumLayers == 2

\* Python's None: the empty tuple, which no tensor or dict of the model equals.
None == <<>>

Val == 0 .. (Modulus - 1)
Queries == 0 .. (NumQueries - 1)
ClassIdx == 0 .. NumClasses
Pixels == 0 .. MaxPixel

Min(a, b) == IF a <= b THEN a ELSE b

RECURSIVE SumOver(_, _)
SumOver(f, S) ==
    IF S = {} THEN 0
    ELSE LET k == CHOOSE x \in S : TRUE IN f[k] + SumOver(f, S \ {k})

\* The frame indices x[start_idx:end_idx] selects from a tensor of n frames:
\* python slicing clips end_idx to the length.
SliceIndices(n, start_idx, end_idx) ==
    [k \in 1 .. (Min(end_idx, n) - Min(start_idx, n)) |-> start_idx + k - 1]

\* images_tensor[start_idx:end_idx]
Slice(s, start_idx, end_idx) ==
    LET idx == SliceIndices(Len(s), start_idx, end_idx)
    IN [k \in DOMAIN idx |-> s[idx[k] + 1]]

RECURSIVE CatPrepend(_)
\* A concatenation that puts each later element in front.
CatPrepend(list) ==
    IF list = <<>> THEN <<>> ELSE CatPrepend(Tail(list)) \o Head(list)

RECURSIVE Cat(_)
\* torch.cat(list, dim=2): concatenation along the time axis, in list order.
Cat(list) ==
    IF list = <<>> THEN <<>> ELSE Head(list) \o Cat(Tail(list))

(***************************************************************************)
(* The Frame Feature Provider (backbone and sem_seg_head): each frame's    *)
(* features depend on that frame alone.                                    *)
(***************************************************************************)
backbone(imgs) ==
    [t \in 1 .. Len(imgs) |-> [res2 |-> imgs[t], res3 |-> imgs[t],
                               res4 |-> imgs[t], res5 |-> imgs[t]]]

sem_seg_head(features) ==
    [pred_embds |->
        [t \in 1 .. Len(features) |->
            [q \in Queries |-> (features[t].res5 * (q + 2) + q) % Modulus]],
     mask_features |->
        [t \in 1 .. Len(features) |-> (features[t].res2 + 3) % Modulus]]

(***************************************************************************)
(* QueryTracker: the learned tables and layers.                            *)
(***************************************************************************)
\* The tracker is built with its own query count, equal to the head's.
num_object_query_other == NumQueries + 1
num_object_query == NumQueries
query_feat == [q \in 0 .. (num_object_query - 1) |-> (q + 1) % Modulus]
query_embed == [q \in 0 .. (num_object_query - 1) |-> (2 * q + 1) % Modulus]
frame_pos_embed(k) == (k + 2) % Modulus

\* tgt attends to memory: query tgt + query_pos, key memory + pos, value memory.
CrossAttentionLayer(j, tgt, memory, query_pos) ==
    [q \in DOMAIN tgt |->
        (tgt[q] + (j + 1) *
            SumOver([k \in DOMAIN memory |->
                        (tgt[q] + query_pos[q]) * (memory[k] + frame_pos_embed(k))
                            * memory[k]],
                    DOMAIN memory)) % Modulus]

\* tgt attends to itself: query and key tgt + query_pos, value tgt.
SelfAttentionLayer(j, tgt, query_pos) ==
    [q \in DOMAIN tgt |->
        (tgt[q] + (j + 2) *
            SumOver([k \in DOMAIN tgt |->
                        (tgt[q] + query_pos[q]) * (tgt[k] + query_pos[k]) * tgt[k]],
                    DOMAIN tgt)) % Modulus]

FFNLayer(j, tgt) ==
    [q \in DOMAIN tgt |-> (tgt[q] + (j + 1) * (tgt[q] * tgt[q] + 1)) % Modulus]

frame_proj(x) == [q \in DOMAIN x |-> (3 * x[q] + 1) % Modulus]

\* A detach that hands on a fresh, zeroed tensor.
DetachZeroed(x) == [q \in DOMAIN x |-> 0]

\* output.detach(): cuts the gradient link, leaves the values alone.
Detach(x) == x

decoder_norm(x) == [q \in DOMAIN x |-> (x[q] + 1) % Modulus]
class_embed(x) ==
    [q \in DOMAIN x |-> [c \in ClassIdx |-> (x[q] * (c + 1) + c) % Modulus]]
mask_embed(x) == [q \in DOMAIN x |-> (x[q] * x[q] + 2) % Modulus]
mask_feature_proj(mf) == [t \in DOMAIN mf |-> (2 * mf[t] + 1) % Modulus]

RECURSIVE LayerLoop(_, _, _, _)
\* for j in range(self.num_layers): cross-attend, self-attend, feed-forward;
\* ms_output collects every layer's output.
LayerLoop(j, output, single_frame_embeds, ms_output) ==
    IF j >= NumLayers THEN [output |-> output, ms_output |-> ms_output]
    ELSE LET o1 == CrossAttentionLayer(j, output, single_frame_embeds, query_embed)
             o2 == SelfAttentionLayer(j, o1, query_embed)
             o3 == FFNLayer(j, o2)
         IN LayerLoop(j + 1, o3, single_frame_embeds, Append(ms_output, o3))

RECURSIVE FrameLoop(_, _, _, _, _)
\* for i in range(n_frame): the layer stack, then the projection of the
\* (optionally detached) last-layer output becomes the next frame's state.
FrameLoop(i, frame_embeds, output, outputs, detach) ==
    IF i > Len(frame_embeds) THEN outputs
    ELSE LET r == LayerLoop(0, output, frame_embeds[i], <<>>)
             o == IF detach THEN Detach(r.output) ELSE r.output
         IN FrameLoop(i + 1, frame_embeds, frame_proj(o),
                      Append(outputs, r.ms_output), detach)

\* A tracker that starts a seeded call from the seed itself, unprojected.
InitialOutputUnprojected(init_query) ==
    IF init_query = None THEN query_feat ELSE init_query

\* The initial state of QueryTracker.forward.
InitialOutput(init_query) ==
    IF init_query = None THEN query_feat ELSE frame_proj(init_query)

\* QueryTracker.prediction, for decoder layer l (1 .. NumLayers).
PredictionClass(outputs, l) ==
    [t \in 1 .. Len(outputs) |-> class_embed(decoder_norm(outputs[t][l]))]
PredictionMask(outputs, mask_features, l) ==
    [t \in 1 .. Len(outputs) |->
        LET me == mask_embed(decoder_norm(outputs[t][l]))
        IN [q \in DOMAIN me |-> (me[q] * mask_features[t]) % Modulus]]

\* An auxiliary list that keeps every layer, the last included.
SetAuxLossAll(outputs, mask_features) ==
    [l \in 1 .. NumLayers |->
        [pred_logits |-> PredictionClass(outputs, l),
         pred_masks |-> PredictionMask(outputs, mask_features, l)]]

\* QueryTracker._set_aux_loss: every layer but the last.
SetAuxLoss(outputs, mask_features) ==
    [l \in 1 .. (NumLayers - 1) |->
        [pred_logits |-> PredictionClass(outputs, l),
         pred_masks |-> PredictionMask(outputs, mask_features, l)]]

\* QueryTracker.forward.
TrackerForward(frame_embeds, mask_features, init_query, detach) ==
    LET mf == mask_feature_proj(mask_features)
        outputs == FrameLoop(1, frame_embeds, InitialOutput(init_query), <<>>, detach)
    IN [pred_logits |-> PredictionClass(outputs, NumLayers),
        pred_masks |-> PredictionMask(outputs, mf, NumLayers),
        aux_outputs |-> SetAuxLoss(outputs, mf),
        pred_embds |-> [t \in 1 .. Len(outputs) |-> outputs[t][NumLayers]]]

(***************************************************************************)
(* VideoMaskFormer_frame.run_window_inference, one loop iteration in three *)
(* steps (feature provider, tracker call, release and append), then the    *)
(* merge of out_list.                                                      *)
(***************************************************************************)
VARIABLES
    images_tensor,   \* the clip: one pixel value per frame
    window_size,     \* the window_size argument
    detach_frame_connection, \* the tracker's construction flag
    wpc,             \* position in run_window_inference
    i,               \* the loop variable of the chunk loop
    features,        \* the backbone's output for the current chunk, or None
    out,             \* sem_seg_head's output for the current chunk, or None
    frame_embds,     \* out['pred_embds'] of the current chunk, or None
    mask_features,   \* out['mask_features'].unsqueeze(0), or None once deleted
    track_out,       \* the tracker's output for the current chunk, or None
    out_list,        \* the per-chunk tracker outputs kept so far
    outputs,         \* the merged result, or None
    whole_out,       \* forward's other branch: the tracker over the whole clip
    tracker_calls,   \* history: every self.tracker(...) call of the chunk loop
    chunk_frames     \* history: the frame indices each chunk's slice selected

wvars == <<images_tensor, window_size, detach_frame_connection, wpc, i, features,
           out, frame_embds, mask_features, track_out, out_list, outputs,
           whole_out, tracker_calls, chunk_frames>>


\* A chunk count that forgets the shorter last chunk.
ItersFloor(n, w) == n \div w

\* iters = len // window_size, plus one when a remainder is left.
Iters(n, w) == (n \div w) + (IF n % w # 0 THEN 1 ELSE 0)

\* A seed taken from the first frame of the last appended chunk.
SeedQueryFirstFrame(list) ==
    LET last == list[Len(list)] IN last.pred_embds[1]

\* out_list[-1]['pred_embds'].permute(2, 3, 0, 1)[-1]: the (q, b, c) slice of
\* the last frame of the last appended chunk.
SeedQuery(list) ==
    LET last == list[Len(list)] IN last.pred_embds[Len(last.pred_embds)]

WInit ==
    /\ \E n \in 1 .. MaxFrames : images_tensor \in [1 .. n -> Pixels]
    /\ window_size \in 1 .. MaxWindow
    /\ detach_frame_connection \in BOOLEAN
    /\ wpc = "loop"
    /\ i = 0
    /\ features = None
    /\ out = None
    /\ frame_embds = None
    /\ mask_features = None
    /\ track_out = None
    /\ out_list = <<>>
    /\ outputs = None
    /\ whole_out = None
    /\ tracker_calls = <<>>
    /\ chunk_frames = <<>>

\* features = self.backbone(images_tensor[start_idx:end_idx]);
\* out = self.sem_seg_head(features); frame_embds, mask_features = ...
ChunkFeatures ==
    /\ wpc = "loop"
    /\ i < Iters(Len(images_tensor), window_size)
    /\ LET start_idx == i * window_size
           end_idx == (i + 1) * window_size
           f == backbone(Slice(images_tensor, start_idx, end_idx))
           o == sem_seg_head(f)
       IN /\ features' = f
          /\ out' = o
          /\ frame_embds' = o.pred_embds
          /\ mask_features' = o.mask_features
          /\ chunk_frames' = Append(chunk_frames,
                                    SliceIndices(Len(images_tensor), start_idx, end_idx))
    /\ wpc' = "track"
    /\ UNCHANGED <<images_tensor, window_size, detach_frame_connection, i,
                   track_out, out_list, outputs, whole_out, tracker_calls>>

\* if i == 0: self.tracker(frame_embds, mask_features)
\* else: self.tracker(frame_embds, mask_features, init_query=...)
ChunkTrack ==
    /\ wpc = "track"
    /\ LET init_query == IF i = 0 THEN None ELSE SeedQuery(out_list)
           result == TrackerForward(frame_embds, mask_features, init_query,
                                    detach_frame_connection)
       IN /\ track_out' = result
          /\ tracker_calls' = Append(tracker_calls,
                                     [chunk |-> i, init_query |-> init_query,
                                      output |-> InitialOutput(init_query),
                                      pred_embds |-> result.pred_embds])
    /\ wpc' = "release"
    /\ UNCHANGED <<images_tensor, window_size, detach_frame_connection, i,
                   features, out, frame_embds, mask_features, out_list, outputs,
                   whole_out, chunk_frames>>

\* del features['res2'], ...; del mask_features; del the aux outputs' fields;
\* out_list.append(track_out)
ChunkRelease ==
    /\ wpc = "release"
    /\ features' = [t \in DOMAIN features |-> <<>>]
    /\ mask_features' = None
    /\ LET kept == [track_out EXCEPT
                       !.aux_outputs = [l \in DOMAIN track_out.aux_outputs |-> <<>>]]
       IN /\ track_out' = kept
          /\ out_list' = Append(out_list, kept)
    /\ i' = i + 1
    /\ wpc' = "loop"
    /\ UNCHANGED <<images_tensor, window_size, detach_frame_connection, out,
                   frame_embds, outputs, whole_out, tracker_calls, chunk_frames>>

\* The merge: torch.cat over out_list for each of the three kept fields.
MergeOutputs(list) ==
    [pred_logits |-> Cat([k \in DOMAIN list |-> list[k].pred_logits]),
     pred_masks |-> Cat([k \in DOMAIN list |-> list[k].pred_masks]),
     pred_embds |-> Cat([k \in DOMAIN list |-> list[k].pred_embds])]

WindowMerge ==
    /\ wpc = "loop"
    /\ i >= Iters(Len(images_tensor), window_size)
    /\ outputs' = MergeOutputs(out_list)
    /\ wpc' = "done"
    /\ UNCHANGED <<images_tensor, window_size, detach_frame_connection, i,
                   features, out, frame_embds, mask_features, track_out, out_list,
                   whole_out, tracker_calls, chunk_frames>>

\* forward's branch without window inference, run on the same clip once the
\* windowed run is over: backbone and head on all frames, then one unseeded
\* tracker call.
WholeClipForward ==
    /\ wpc = "done"
    /\ LET o == sem_seg_head(backbone(images_tensor))
       IN whole_out' = TrackerForward(o.pred_embds, o.mask_features, None,
                                      detach_frame_connection)
    /\ wpc' = "compared"
    /\ UNCHANGED <<images_tensor, window_size, detach_frame_connection, i,
                   features, out, frame_embds, mask_features, track_out, out_list,
                   outputs, tracker_calls, chunk_frames>>


(***************************************************************************)
(* The cross-frame matcher.  An embedding is a vector of two integers with *)
(* an integer, non-zero length, so that dividing by the norm is exact on   *)
(* the scale UnitScale; cosines and costs are exact integers on the scales *)
(* UnitScale^2 and 10 * UnitScale^2 (floating-point rounding is not        *)
(* modelled).                                                              *)
(***************************************************************************)
UnitScale == 2 * 5

\* x.norm(dim=1): the euclidean length of one row.
Norm(v) == CHOOSE n \in 0 .. (2 * UnitScale) : n * n = v[1] * v[1] + v[2] * v[2]

\* embds / embds.norm(dim=1)[:, None], row by row, on the scale UnitScale.
Normalize(embds) ==
    [q \in DOMAIN embds |->
        <<(embds[q][1] * UnitScale) \div Norm(embds[q]),
          (embds[q][2] * UnitScale) \div Norm(embds[q])>>]

Dot(u, v) == u[1] * v[1] + u[2] * v[2]

\* torch.mm(cur_embds, tgt_embd.transpose(0, 1)): entry [q][j] pairs current
\* query q with reference query j.
CosSim(cur_embds, tgt_embd) ==
    [q \in DOMAIN cur_embds |-> [j \in DOMAIN tgt_embd |-> Dot(cur_embds[q], tgt_embd[j])]]

\* cost_embd = 1 - cos_sim
CostEmbd(cos_sim) ==
    [q \in DOMAIN cos_sim |->
        [j \in DOMAIN cos_sim[q] |-> UnitScale * UnitScale - cos_sim[q][j]]]

\* Weights that favour the oldest reference.
WeightsReversed == <<6, 3, 1>>

\* weights = [0.1, 0.3, 0.6], in tenths.
Weights == <<1, 3, 6>>

RECURSIVE WeightedCost(_, _, _)
\* for i, (weight, tgt_embd) in enumerate(zip(weights, tgt_embds)):
\*     C = C + cost_embd * weight       (zip stops at the shorter list)
WeightedCost(k, cur_embds, tgt_embds) ==
    IF k > Min(Len(Weights), Len(tgt_embds)) THEN
        [q \in DOMAIN cur_embds |-> [j \in DOMAIN cur_embds |-> 0]]
    ELSE LET rest == WeightedCost(k + 1, cur_embds, tgt_embds)
             cost_embd == CostEmbd(CosSim(cur_embds, tgt_embds[k]))
         IN [q \in DOMAIN cur_embds |->
                [j \in DOMAIN cur_embds |-> rest[q][j] + cost_embd[q][j] * Weights[k]]]

\* A transpose that was forgotten.
TransposeForgotten(M) == M

\* C.transpose(0, 1)
Transpose(M) ==
    [a \in DOMAIN M |-> [b \in DOMAIN M |-> M[b][a]]]

Bijections(S) == {p \in [S -> S] : \A a, b \in S : p[a] = p[b] => a = b}

AssignmentCost(M, p) == SumOver([r \in DOMAIN M |-> M[r][p[r]]], DOMAIN M)

\* Each row takes its cheapest column, whatever the other rows take.
RowwiseArgmin(M) ==
    {p \in [DOMAIN M -> DOMAIN M] :
        \A r \in DOMAIN M : \A c \in DOMAIN M : M[r][p[r]] <= M[r][c]}

\* scipy.optimize.linear_sum_assignment on a square matrix, second component:
\* the column assigned to each row, in row order, of a minimum-cost perfect
\* assignment.  Which optimum is returned on a tie is not specified.
LinearSumAssignment(M) ==
    {p \in Bijections(DOMAIN M) :
        \A p2 \in Bijections(DOMAIN M) : AssignmentCost(M, p) <= AssignmentCost(M, p2)}

\* match_from_embds_ up to the cost matrix C (scores is None at the call).
MatchCost(tgt_embds, cur_embds) ==
    WeightedCost(1, Normalize(cur_embds),
                 [k \in DOMAIN tgt_embds |-> Normalize(tgt_embds[k])])

\* match_from_embds_: the possible return values.
MatchFromEmbds(tgt_embds, cur_embds) ==
    LinearSumAssignment(Transpose(MatchCost(tgt_embds, cur_embds)))

(***************************************************************************)
(* The clips post_processing_ is run on.  Every frame holds MatchQueries   *)
(* embeddings taken from Directions; a frame's logits follow from its      *)
(* embeddings and its masks are named by frame and query.                  *)
(***************************************************************************)
MaxClip == 4
MatchQueries == 3
MQ == 0 .. (MatchQueries - 1)

Directions ==
    << <<5, 0>>, <<4, 3>>, <<6, 8>>, <<0, 5>>, <<-3, 4>>, <<-4, 3>> >>

FrameChoices ==
    {[q \in MQ |-> Directions[((q + r) % MatchQueries) + 1]] : r \in MQ}
    \cup {[q \in MQ |-> Directions[IF q = 0 THEN 2 ELSE IF q = 1 THEN 1 ELSE q + 1]],
          [q \in MQ |-> Directions[q + 2]],
          [q \in MQ |-> Directions[IF q = 0 THEN 1 ELSE q]]}

\* A stand-in for e^x: positive and strictly increasing.
RECURSIVE Exp(_)
Exp(x) == IF x <= 0 THEN 1 ELSE 2 * Exp(x - 1)

LogitsOfEmbd(v) == [c \in ClassIdx |-> ((v[1] + (c + 1) * v[2]) \div 5) % 3]

\* torch.max(F.softmax(pred_logits, dim=-1)[..., :-1], dim=-1)[0] for one
\* query, as the fraction <<numerator, denominator>>.
PredScore(logits) ==
    LET best == CHOOSE c \in 0 .. (NumClasses - 1) :
                    \A c2 \in 0 .. (NumClasses - 1) : logits[c2] <= logits[c]
    IN <<Exp(logits[best]), SumOver([c \in ClassIdx |-> Exp(logits[c])], ClassIdx)>>

\* What the unbound lists hold for frame t when its embeddings are e.
FramePredictions(t, e) ==
    [pred_logits |-> [q \in MQ |-> LogitsOfEmbd(e[q])],
     pred_masks |-> [q \in MQ |-> <<t, q>>],
     pred_embds |-> e,
     pred_scores |-> [q \in MQ |-> PredScore(LogitsOfEmbd(e[q]))]]

\* A reordering in the opposite direction: row indices[j] of the result is
\* row j of x.
GatherInverse(x, indices) ==
    [j \in DOMAIN indices |-> x[CHOOSE k \in DOMAIN indices : indices[k] = j]]

\* x[indices, ...]: row j of the result is row indices[j] of x.
Gather(x, indices) == [j \in DOMAIN indices |-> x[indices[j]]]

\* out_embds[-3:]: the three most recent entries.
LastThree(list) ==
    SubSeq(list, IF Len(list) > 3 THEN Len(list) - 2 ELSE 1, Len(list))

(***************************************************************************)
(* VideoMaskFormer_frame.post_processing_: the anchor frame, one step per  *)
(* later frame, then the average.  Frame t's predictions are drawn when    *)
(* the loop reaches t.                                                     *)
(***************************************************************************)
VARIABLES
    clip_len,     \* len(pred_logits)
    pred,         \* the frames' predictions read so far
    ppc,          \* position in post_processing_
    pidx,         \* the loop variable i
    out_logits, out_masks, out_embds, out_scores,   \* the lists being built
    indices,      \* the matcher's last return value, or None
    match_calls,  \* history: every match_from_embds_ call
    pp_outputs    \* the returned pred_logits and pred_masks, or None

mvars == <<clip_len, pred, ppc, pidx, out_logits, out_masks, out_embds, out_scores,
           indices, match_calls, pp_outputs>>

MInit ==
    /\ clip_len \in 1 .. MaxClip
    /\ pred = <<>>
    /\ ppc = "anchor"
    /\ pidx = 0
    /\ out_logits = <<>>
    /\ out_masks = <<>>
    /\ out_embds = <<>>
    /\ out_scores = <<>>
    /\ indices = None
    /\ match_calls = <<>>
    /\ pp_outputs = None

\* out_logits.append(pred_logits[0]); out_masks.append(pred_masks[0]);
\* out_embds += [pred_embds[0]] * 3; out_scores += [pred_scores[0]] * 3
PostAnchor ==
    /\ ppc = "anchor"
    /\ \E e \in FrameChoices :
        LET f == FramePredictions(0, e)
        IN /\ pred' = <<f>>
           /\ out_logits' = <<f.pred_logits>>
           /\ out_masks' = <<f.pred_masks>>
           /\ out_embds' = <<f.pred_embds, f.pred_embds, f.pred_embds>>
           /\ out_scores' = <<f.pred_scores, f.pred_scores, f.pred_scores>>
    /\ pidx' = 1
    /\ ppc' = "loop"
    /\ UNCHANGED <<clip_len, indices, match_calls, pp_outputs>>

\* One iteration of for i in range(1, len(pred_logits)).
PostFrame ==
    /\ ppc = "loop"
    /\ pidx < clip_len
    /\ \E e \in FrameChoices :
        LET f == FramePredictions(pidx, e)
            tgt_embds == LastThree(out_embds)
        IN \E ind \in MatchFromEmbds(tgt_embds, f.pred_embds) :
            /\ pred' = Append(pred, f)
            /\ indices' = ind
            /\ match_calls' = Append(match_calls,
                                     [frame |-> pidx, tgt_embds |-> tgt_embds,
                                      cur_embds |-> f.pred_embds,
                                      C |-> MatchCost(tgt_embds, f.pred_embds),
                                      indices |-> ind])
            /\ out_logits' = Append(out_logits, Gather(f.pred_logits, ind))
            /\ out_masks' = Append(out_masks, Gather(f.pred_masks, ind))
            /\ out_embds' = Append(out_embds, Gather(f.pred_embds, ind))
            /\ out_scores' = Append(out_scores, Gather(f.pred_scores, ind))
    /\ pidx' = pidx + 1
    /\ UNCHANGED <<clip_len, ppc, pp_outputs>>

\* out_logits = sum(out_logits) / len(out_logits), kept as the sum and the
\* count; out_masks = torch.stack(out_masks, dim=1): per query, the frames.
PostAverage ==
    /\ ppc = "loop"
    /\ pidx >= clip_len
    /\ pp_outputs' =
        [pred_logits |->
            [q \in MQ |-> [c \in ClassIdx |->
                <<SumOver([t \in DOMAIN out_logits |-> out_logits[t][q][c]],
                          DOMAIN out_logits),
                  Len(out_logits)>>]],
         pred_masks |-> [q \in MQ |-> [t \in DOMAIN out_masks |-> out_masks[t][q]]]]
    /\ ppc' = "done"
    /\ UNCHANGED <<clip_len, pred, pidx, out_logits, out_masks, out_embds, out_scores,
                   indices, match_calls>>

(***************************************************************************)
(* VideoMaskFormer_frame.inference_video.  pred_cls holds one row of       *)
(* num_classes + 1 logits per query; a query's mask is one logit per frame *)
(* (a 1 x 1 map), which the two bilinear resizes and the crop spread       *)
(* unchanged over the output image before the threshold at zero.  A score  *)
(* is the fraction <<numerator, denominator>>.                             *)
(***************************************************************************)
MaxNum == 3
MaskFrames == 2

\* The rows pred_cls is built from: one class confident, "no object"
\* confident, nothing confident.
RowChoices ==
    {[c \in ClassIdx |-> IF c = hot THEN 2 ELSE 0] : hot \in ClassIdx}
    \cup {[c \in ClassIdx |-> 0]}

OutSizes == {<<2, 3>>}

\* The masks of query q: frame t is on where bit t of q is set.
MasksOfQuery(q) ==
    [t \in 1 .. MaskFrames |->
        IF (q \div Exp(t - 1)) % 2 = 1 THEN q + 1 ELSE 0 - (q + 1)]

FracLeq(a, b) == a[1] * b[2] <= b[1] * a[2]

\* F.softmax(pred_cls, dim=-1)[:, :-1]: the row's normaliser counts the
\* "no object" logit, the slice then drops that column.
Scores(cls) ==
    [q \in DOMAIN cls |->
        [c \in 0 .. (NumClasses - 1) |->
            <<Exp(cls[q][c]), SumOver([c2 \in ClassIdx |-> Exp(cls[q][c2])], ClassIdx)>>]]

\* scores.flatten(0, 1): query-major.
Flatten(scores) ==
    [f \in 0 .. (Cardinality(DOMAIN scores) * NumClasses - 1) |->
        scores[f \div NumClasses][f % NumClasses]]

\* A label table laid out class-major.
LabelsClassMajor ==
    [f \in 0 .. (NumQueries * NumClasses - 1) |-> f \div NumQueries]

\* torch.arange(num_classes).unsqueeze(0).repeat(self.num_queries, 1).flatten(0, 1)
Labels ==
    [f \in 0 .. (NumQueries * NumClasses - 1) |-> f % NumClasses]

Range(s) == {s[k] : k \in DOMAIN s}

\* x.topk(k, sorted=False): the indices of k largest entries; which of several
\* equal entries are taken, and the order of the result, are not specified.
TopK(flat, k) ==
    {s \in [1 .. k -> DOMAIN flat] :
        /\ \A a, b \in 1 .. k : s[a] = s[b] => a = b
        /\ \A f \in DOMAIN flat \ Range(s) : \A g \in Range(s) : FracLeq(flat[f], flat[g])}

\* A guard that takes the non-empty branch whatever the input.
HasQueriesAlways(cls) == TRUE

\* if len(pred_cls) > 0
HasQueries(cls) == Cardinality(DOMAIN cls) > 0

\* interpolate to first_resize_size, crop to img_size, interpolate to the
\* output size, then masks = pred_masks > 0.
OutputMask(mask, size) ==
    [size |-> size, on |-> [t \in DOMAIN mask |-> mask[t] > 0]]

VARIABLES
    pred_cls,       \* the argument pred_cls: a row of logits per query
    pred_masks,     \* the argument pred_masks: per query, a mask per frame
    out_size,       \* <<output_height, output_width>>
    max_num,        \* the argument max_num
    vpc,            \* "call", "returned" or "raised"
    topk_indices,   \* what topk returned, before the division
    video_output    \* the returned dict, or None

vvars == <<pred_cls, pred_masks, out_size, max_num, vpc, topk_indices, video_output>>

VInit ==
    /\ \E nq \in 0 .. NumQueries : pred_cls \in [0 .. (nq - 1) -> RowChoices]
    /\ pred_masks = [q \in DOMAIN pred_cls |-> MasksOfQuery(q)]
    /\ out_size \in OutSizes
    /\ max_num \in 1 .. MaxNum
    /\ vpc = "call"
    /\ topk_indices = None
    /\ video_output = None

\* The branch len(pred_cls) > 0, when topk finds max_num entries.
InferenceVideo ==
    /\ vpc = "call"
    /\ HasQueries(pred_cls)
    /\ LET flat == Flatten(Scores(pred_cls))
       IN /\ max_num <= Cardinality(DOMAIN flat)
          /\ \E idx \in TopK(flat, max_num) :
                /\ topk_indices' = idx
                /\ video_output' =
                    [image_size |-> out_size,
                     pred_scores |-> [k \in 1 .. max_num |-> flat[idx[k]]],
                     pred_labels |-> [k \in 1 .. max_num |-> Labels[idx[k]]],
                     pred_masks |->
                        [k \in 1 .. max_num |->
                            OutputMask(pred_masks[idx[k] \div NumClasses], out_size)]]
    /\ vpc' = "returned"
    /\ UNCHANGED <<pred_cls, pred_masks, out_size, max_num>>

\* The same branch when max_num exceeds the number of entries: topk raises.
InferenceVideoRaise ==
    /\ vpc = "call"
    /\ HasQueries(pred_cls)
    /\ max_num > Cardinality(DOMAIN Flatten(Scores(pred_cls)))
    /\ vpc' = "raised"
    /\ UNCHANGED <<pred_cls, pred_masks, out_size, max_num, topk_indices, video_output>>

\* The else branch: empty lists.
InferenceVideoEmpty ==
    /\ vpc = "call"
    /\ ~HasQueries(pred_cls)
    /\ video_output' = [image_size |-> out_size, pred_scores |-> <<>>,
                        pred_labels |-> <<>>, pred_masks |-> <<>>]
    /\ vpc' = "returned"
    /\ UNCHANGED <<pred_cls, pred_masks, out_size, max_num, topk_indices>>

(***************************************************************************)
(* QueryTracker.forward, step by step.  Two trackers with the same weights *)
(* run on the same input, one built with detach_frame_connection = TRUE    *)
(* and one with FALSE; every variable that depends on the flag is a        *)
(* function of it.  t_log records each step with the state it read and the *)
(* state it left.                                                          *)
(***************************************************************************)
MaxTrackFrames == 2

\* The seeds a caller may pass as init_query.
TrackSeeds == [Queries -> Pixels]

VARIABLES
    t_frame_embeds,  \* the argument frame_embeds, as (t, q)
    t_mask_features, \* the argument mask_features
    t_init_query,    \* the argument init_query, or None
    tpc,             \* "cross", "self", "ffn", "proj", "predict" or "done"
    t_i,             \* the frame loop's i
    t_j,             \* the layer loop's j
    t_output,        \* output, per tracker
    t_ms_output,     \* ms_output, per tracker
    t_outputs,       \* outputs, per tracker
    t_out,           \* the returned dict, per tracker, or None
    t_log            \* the steps taken so far

tvars == <<t_frame_embeds, t_mask_features, t_init_query, tpc, t_i, t_j,
           t_output, t_ms_output, t_outputs, t_out, t_log>>

\* Lines 621-635: the arguments and the initial state.
TInit ==
    /\ \E n \in 1 .. MaxTrackFrames : \E imgs \in [1 .. n -> Pixels] :
        LET head == sem_seg_head(backbone(imgs))
        IN /\ t_frame_embeds = head.pred_embds
           /\ t_mask_features = head.mask_features
    /\ t_init_query \in {None} \cup TrackSeeds
    /\ tpc = "cross"
    /\ t_i = 0
    /\ t_j = 0
    /\ t_output = [d \in BOOLEAN |-> InitialOutput(t_init_query)]
    /\ t_ms_output = [d \in BOOLEAN |-> <<>>]
    /\ t_outputs = [d \in BOOLEAN |-> <<>>]
    /\ t_out = None
    /\ t_log = <<>>

LogStep(step, new_output) ==
    Append(t_log, [step |-> step, frame |-> t_i, layer |-> t_j,
                   read |-> t_output, left |-> new_output])

\* output = self.transformer_cross_attention_layers[j](output, single_frame_embeds, ...)
TrackCrossAttend ==
    /\ tpc = "cross"
    /\ LET o == [d \in BOOLEAN |->
                    CrossAttentionLayer(t_j, t_output[d], t_frame_embeds[t_i + 1],
                                        query_embed)]
       IN /\ t_output' = o
          /\ t_log' = LogStep("cross", o)
    /\ tpc' = "self"
    /\ UNCHANGED <<t_frame_embeds, t_mask_features, t_init_query, t_i, t_j,
                   t_ms_output, t_outputs, t_out>>

\* output = self.transformer_self_attention_layers[j](output, ...)
TrackSelfAttend ==
    /\ tpc = "self"
    /\ LET o == [d \in BOOLEAN |-> SelfAttentionLayer(t_j, t_output[d], query_embed)]
       IN /\ t_output' = o
          /\ t_log' = LogStep("self", o)
    /\ tpc' = "ffn"
    /\ UNCHANGED <<t_frame_embeds, t_mask_features, t_init_query, t_i, t_j,
                   t_ms_output, t_outputs, t_out>>

\* output = self.transformer_ffn_layers[j](output); ms_output.append(output)
TrackFeedForward ==
    /\ tpc = "ffn"
    /\ LET o == [d \in BOOLEAN |-> FFNLayer(t_j, t_output[d])]
       IN /\ t_output' = o
          /\ t_ms_output' = [d \in BOOLEAN |-> Append(t_ms_output[d], o[d])]
          /\ t_log' = LogStep("ffn", o)
    /\ IF t_j + 1 < NumLayers
       THEN t_j' = t_j + 1 /\ tpc' = "cross"
       ELSE t_j' = t_j /\ tpc' = "proj"
    /\ UNCHANGED <<t_frame_embeds, t_mask_features, t_init_query, t_i,
                   t_outputs, t_out>>

\* A frame end that carries the last-layer output on as it is.
TrackProjectSkipped ==
    /\ tpc = "proj"
    /\ t_log' = LogStep("proj", t_output)
    /\ t_outputs' = [d \in BOOLEAN |-> Append(t_outputs[d], t_ms_output[d])]
    /\ t_ms_output' = [d \in BOOLEAN |-> <<>>]
    /\ t_i' = t_i + 1
    /\ t_j' = 0
    /\ tpc' = IF t_i + 1 < Len(t_frame_embeds) THEN "cross" ELSE "predict"
    /\ UNCHANGED <<t_frame_embeds, t_mask_features, t_init_query, t_output, t_out>>

\* if self.detach_frame_connection: output = output.detach();
\* output = self.frame_proj(output); outputs.append(torch.stack(ms_output))
TrackProject ==
    /\ tpc = "proj"
    /\ LET o == [d \in BOOLEAN |->
                    frame_proj(IF d THEN Detach(t_output[d]) ELSE t_output[d])]
       IN /\ t_output' = o
          /\ t_log' = LogStep("proj", o)
    /\ t_outputs' = [d \in BOOLEAN |-> Append(t_outputs[d], t_ms_output[d])]
    /\ t_ms_output' = [d \in BOOLEAN |-> <<>>]
    /\ t_i' = t_i + 1
    /\ t_j' = 0
    /\ tpc' = IF t_i + 1 < Len(t_frame_embeds) THEN "cross" ELSE "predict"
    /\ UNCHANGED <<t_frame_embeds, t_mask_features, t_init_query, t_out>>

\* Lines 664-678: the predictions of every layer and the returned dict.
TrackPredict ==
    /\ tpc = "predict"
    /\ t_out' =
        [d \in BOOLEAN |->
            LET mf == mask_feature_proj(t_mask_features)
            IN [pred_logits |-> PredictionClass(t_outputs[d], NumLayers),
                pred_masks |-> PredictionMask(t_outputs[d], mf, NumLayers),
                aux_outputs |-> SetAuxLoss(t_outputs[d], mf),
                pred_embds |->
                    [t \in 1 .. Len(t_outputs[d]) |-> t_outputs[d][t][NumLayers]]]]
    /\ tpc' = "done"
    /\ UNCHANGED <<t_frame_embeds, t_mask_features, t_init_query, t_i, t_j,
                   t_output, t_ms_output, t_outputs, t_log>>

TIdle ==
    /\ t_frame_embeds = <<>> /\ t_mask_features = <<>> /\ t_init_query = None
    /\ tpc = "idle" /\ t_i = 0 /\ t_j = 0 /\ t_output = None
    /\ t_ms_output = None /\ t_outputs = None /\ t_out = None /\ t_log = <<>>

vars == <<wvars, mvars, vvars, tvars>>

WIdle ==
    /\ images_tensor = <<>> /\ window_size = 1 /\ detach_frame_connection = TRUE
    /\ wpc = "idle" /\ i = 0 /\ features = None /\ out = None
    /\ frame_embds = None /\ mask_features = None /\ track_out = None
    /\ out_list = <<>> /\ outputs = None /\ whole_out = None
    /\ tracker_calls = <<>> /\ chunk_frames = <<>>

MIdle ==
    /\ ppc = "idle" /\ clip_len = 0 /\ pred = <<>> /\ pidx = 0
    /\ out_logits = <<>> /\ out_masks = <<>> /\ out_embds = <<>>
    /\ out_scores = <<>> /\ indices = None /\ match_calls = <<>>
    /\ pp_outputs = None

VIdle ==
    /\ pred_cls = <<>> /\ pred_masks = <<>> /\ out_size = <<0, 0>> /\ max_num = 0
    /\ vpc = "idle" /\ topk_indices = None /\ video_output = None

\* The windowed driver and the tracker.
Init == WInit /\ MIdle /\ VIdle /\ TIdle
Next ==
    \/ ChunkFeatures /\ UNCHANGED <<mvars, vvars, tvars>>
    \/ ChunkTrack /\ UNCHANGED <<mvars, vvars, tvars>>
    \/ ChunkRelease /\ UNCHANGED <<mvars, vvars, tvars>>
    \/ WindowMerge /\ UNCHANGED <<mvars, vvars, tvars>>
    \/ WholeClipForward /\ UNCHANGED <<mvars, vvars, tvars>>
Spec == Init /\ [][Next]_vars

\* post_processing_ and the matcher.
InitMatch == MInit /\ WIdle /\ VIdle /\ TIdle
NextMatch ==
    \/ PostAnchor /\ UNCHANGED <<wvars, vvars, tvars>>
    \/ PostFrame /\ UNCHANGED <<wvars, vvars, tvars>>
    \/ PostAverage /\ UNCHANGED <<wvars, vvars, tvars>>
SpecMatch == InitMatch /\ [][NextMatch]_vars

\* inference_video.
InitVideo == VInit /\ WIdle /\ MIdle /\ TIdle
NextVideo ==
    \/ InferenceVideo /\ UNCHANGED <<wvars, mvars, tvars>>
    \/ InferenceVideoRaise /\ UNCHANGED <<wvars, mvars, tvars>>
    \/ InferenceVideoEmpty /\ UNCHANGED <<wvars, mvars, tvars>>
SpecVideo == InitVideo /\ [][NextVideo]_vars

\* QueryTracker.forward.
InitTracker == TInit /\ WIdle /\ MIdle /\ VIdle
NextTracker ==
    \/ TrackCrossAttend /\ UNCHANGED <<wvars, mvars, vvars>>
    \/ TrackSelfAttend /\ UNCHANGED <<wvars, mvars, vvars>>
    \/ TrackFeedForward /\ UNCHANGED <<wvars, mvars, vvars>>
    \/ TrackProject /\ UNCHANGED <<wvars, mvars, vvars>>
    \/ TrackPredict /\ UNCHANGED <<wvars, mvars, vvars>>
SpecTracker == InitTracker /\ [][NextTracker]_vars

(***************************************************************************)
(* Properties of the windowed driver and the tracker.                      *)
(***************************************************************************)
NumFrames == Len(images_tensor)

\* C1: the tracker is called for chunks 0, 1, 2, ... in that order; the call
\* for chunk 0 has no seed; the call for chunk i >= 1 is seeded with the
\* last-layer embedding of the last frame that the call for chunk i-1 returned.
C1_ChunkChaining ==
    \A k \in 1 .. Len(tracker_calls) :
        /\ tracker_calls[k].chunk = k - 1
        /\ k = 1 => tracker_calls[k].init_query = None
        /\ k > 1 =>
            LET prev == tracker_calls[k - 1].pred_embds
            IN /\ tracker_calls[k].init_query # None
               /\ tracker_calls[k].init_query = prev[Len(prev)]

\* C1 witness: a third chunk has been tracked, seeded from chunk 1, whose last
\* frame differs from its first frame and from chunk 0's last frame.
C1_Witness ==
    /\ Len(tracker_calls) = 3
    /\ window_size = 2
    /\ tracker_calls[3].init_query = out_list[2].pred_embds[2]
    /\ out_list[2].pred_embds = tracker_calls[2].pred_embds
    /\ out_list[2].pred_embds[2] # out_list[2].pred_embds[1]
    /\ out_list[2].pred_embds[2] # out_list[1].pred_embds[2]
    /\ out_list[2].pred_embds[2] # query_feat

\* The least m with m * w >= n.
CeilDiv(n, w) == CHOOSE m \in 0 .. n : m * w >= n /\ \A m2 \in 0 .. (m - 1) : m2 * w < n

\* C2: chunk k (counted from 0) holds exactly the frames k*w .. min((k+1)*w, T)-1,
\* is non-empty, has w frames unless it is the last; once the loop is over there
\* are ceil(T/w) chunks and every frame of 0..T-1 is in exactly one of them.
C2_Partition ==
    /\ \A k \in 1 .. Len(chunk_frames) :
        LET c == chunk_frames[k]
        IN /\ Len(c) >= 1
           /\ Len(c) <= window_size
           /\ \A p \in 1 .. Len(c) : c[p] = (k - 1) * window_size + p - 1
           /\ c[Len(c)] = Min(k * window_size, NumFrames) - 1
           /\ k < Len(chunk_frames) => Len(c) = window_size
    /\ wpc \in {"done", "compared"} =>
        /\ Len(chunk_frames) = CeilDiv(NumFrames, window_size)
        /\ \A t \in 0 .. (NumFrames - 1) :
            Cardinality({<<k, p>> \in (1 .. Len(chunk_frames)) \X (1 .. MaxFrames + 1) :
                            p \in DOMAIN chunk_frames[k] /\ chunk_frames[k][p] = t}) = 1

\* C2 witness: a finished run whose last chunk is shorter than the window.
C2_Witness ==
    /\ wpc = "done"
    /\ Len(chunk_frames) >= 2
    /\ Len(chunk_frames[Len(chunk_frames)]) < window_size
    /\ Len(chunk_frames[1]) = window_size

\* C3: the merged result of the windowed run equals the result of one tracker
\* pass over the whole clip; the state each seeded call starts from is the state
\* the single pass carries into that chunk's first frame; a window at least as
\* long as the clip gives one unseeded call.
C3_WindowedEqualsSinglePass ==
    wpc = "compared" =>
        /\ outputs.pred_logits = whole_out.pred_logits
        /\ outputs.pred_masks = whole_out.pred_masks
        /\ outputs.pred_embds = whole_out.pred_embds
        /\ \A k \in 2 .. Len(tracker_calls) :
            \A q \in Queries :
                tracker_calls[k].output[q]
                    = frame_proj(whole_out.pred_embds[(k - 1) * window_size])[q]
        /\ window_size >= NumFrames =>
            /\ Len(tracker_calls) = 1
            /\ tracker_calls[1].init_query = None

\* C3 witness: a finished run of several chunks whose seeded start state is not
\* the learned initial table and not the raw seed.
C3_Witness ==
    /\ wpc = "compared"
    /\ Len(tracker_calls) >= 2
    /\ tracker_calls[2].output # query_feat
    /\ tracker_calls[2].output # tracker_calls[2].init_query
    /\ outputs.pred_logits = whole_out.pred_logits

\* The shape (batch, queries, time, classes + 1) of a logits tensor.
LogitsShape(x) ==
    <<1, Cardinality(DOMAIN x[1]), Len(x), Cardinality(DOMAIN x[1][0])>>

\* C4: the merged outputs have T entries on the time axis and entry t is what
\* the tracker returned for frame t, held at position t mod w of chunk
\* floor(t/w); for 3 frames and a window of 2 the chunks are [0,1] and [2].
C4_MergedTimeAxis ==
    outputs # None =>
        /\ Len(outputs.pred_logits) = NumFrames
        /\ Len(outputs.pred_masks) = NumFrames
        /\ Len(outputs.pred_embds) = NumFrames
        /\ \A t \in 0 .. (NumFrames - 1) :
            LET chunk == out_list[(t \div window_size) + 1]
                pos == (t % window_size) + 1
            IN /\ outputs.pred_logits[t + 1] = chunk.pred_logits[pos]
               /\ outputs.pred_masks[t + 1] = chunk.pred_masks[pos]
               /\ outputs.pred_embds[t + 1] = chunk.pred_embds[pos]
        /\ LogitsShape(outputs.pred_logits) = <<1, NumQueries, NumFrames, NumClasses + 1>>
        /\ (NumFrames = 3 /\ window_size = 2) => chunk_frames = << <<0, 1>>, <<2>> >>

\* C4 witness: the 3-frame, window-2 run has finished, with frames that differ.
C4_Witness ==
    /\ outputs # None
    /\ NumFrames = 3
    /\ window_size = 2
    /\ LogitsShape(outputs.pred_logits)[3] = 3
    /\ outputs.pred_logits[3] # outputs.pred_logits[1]
    /\ outputs.pred_logits[3] # outputs.pred_logits[2]

\* The predictions of one tracker output all have exactly NumQueries rows.
QueryRows(o) ==
    \A t \in DOMAIN o.pred_logits :
        /\ DOMAIN o.pred_logits[t] = Queries
        /\ DOMAIN o.pred_masks[t] = Queries
        /\ DOMAIN o.pred_embds[t] = Queries

\* C8: every frame of every chunk's tracker output, seeded or not, and every
\* frame of the merged output, has exactly num_queries query rows.
C8_QueryCount ==
    /\ track_out # None => QueryRows(track_out)
    /\ \A k \in DOMAIN out_list : QueryRows(out_list[k])
    /\ outputs # None => QueryRows(outputs)

\* C8 witness: a merged output built from an unseeded and a seeded chunk.
C8_Witness ==
    /\ outputs # None
    /\ Len(out_list) >= 2
    /\ tracker_calls[2].init_query # None
    /\ DOMAIN outputs.pred_logits[NumFrames] = Queries

(***************************************************************************)
(* Properties of the matcher and of post_processing_.                      *)
(***************************************************************************)
\* C5: every call of match_from_embds_ returns a permutation of the query
\* indices: each index 0..Q-1 appears exactly once.
C5_MatchIsPermutation ==
    \A k \in DOMAIN match_calls :
        LET ind == match_calls[k].indices
        IN /\ DOMAIN ind = MQ
           /\ \A q \in MQ : Cardinality({j \in MQ : ind[j] = q}) = 1

\* C5 witness: a call at a frame i >= 2 returned a permutation that moves
\* every query.
C5_Witness ==
    /\ Len(match_calls) >= 2
    /\ \A j \in MQ : match_calls[Len(match_calls)].indices[j] # j
    /\ \A q \in MQ : \E j \in MQ : match_calls[Len(match_calls)].indices[j] = q

\* 1 - cosine_similarity(u, v), on the scale UnitScale^2.
CosineCost(u, v) ==
    UnitScale * UnitScale
        - (((u[1] * UnitScale) \div Norm(u)) * ((v[1] * UnitScale) \div Norm(v))
           + ((u[2] * UnitScale) \div Norm(u)) * ((v[2] * UnitScale) \div Norm(v)))

\* The cost of giving current query q to track slot j: the references weighted
\* 0.1, 0.3, 0.6 (in tenths), oldest first.
TrackCost(refs, cur, j, q) ==
    1 * CosineCost(cur[q], refs[1][j]) + 3 * CosineCost(cur[q], refs[2][j])
        + 6 * CosineCost(cur[q], refs[3][j])

TotalTrackCost(refs, cur, p) ==
    SumOver([j \in MQ |-> TrackCost(refs, cur, j, p[j])], MQ)

\* The total cost of the assignment p, slot j taking current query p[j], read
\* off a cost matrix indexed [current q][track j].
MatrixCost(C, p) == SumOver([j \in MQ |-> C[p[j]][j]], MQ)

\* C6: the matcher's cost of giving current query q to track slot j is the
\* weighted sum of 1 - cosine similarity over the references, and the indices
\* returned by the latest call (every call is the latest when it returns),
\* read as "track slot j takes current query indices[j]", have the least
\* total cost among all one-to-one assignments.
C6_MatchIsMinimumCost ==
    match_calls # <<>> =>
        LET call == match_calls[Len(match_calls)]
        IN /\ \A q \in MQ : \A j \in MQ :
                call.C[q][j] = TrackCost(call.tgt_embds, call.cur_embds, j, q)
           /\ \A p \in Bijections(MQ) :
                MatrixCost(call.C, call.indices) <= MatrixCost(call.C, p)

\* C6 witness: a call whose optimum is unique, is not its own inverse, and
\* whose references are not all the same frame.
C6_Witness ==
    match_calls # <<>> /\
        LET call == match_calls[Len(match_calls)]
        IN /\ \E j \in MQ : call.indices[call.indices[j]] # j
           /\ call.tgt_embds[1] # call.tgt_embds[3]
           /\ \A p \in Bijections(MQ) :
                p # call.indices =>
                    TotalTrackCost(call.tgt_embds, call.cur_embds, call.indices)
                        < TotalTrackCost(call.tgt_embds, call.cur_embds, p)

\* The embeddings of frame t as post_processing_ put them in the history:
\* frame 0 as read, a later frame permuted by its own match, and frame 0
\* again for the frames before the clip.
HistoryEntry(t) ==
    IF t <= 0 THEN pred[1].pred_embds
    ELSE Gather(pred[t + 1].pred_embds, match_calls[t].indices)

\* C7: frame 0 is emitted unpermuted and is the whole history at first; the
\* frames i >= 1 are matched in increasing order (the k-th call is for frame
\* k), each against the history entries of frames i-3, i-2, i-1, weighted 0.1,
\* 0.3, 0.6 in that order.  Stated of the latest call, which every call is
\* when it returns.
C7_AnchorAndRecentHistory ==
    /\ Len(pred) >= 1 =>
        /\ out_logits[1] = pred[1].pred_logits
        /\ out_masks[1] = pred[1].pred_masks
        /\ SubSeq(out_embds, 1, 3)
            = <<pred[1].pred_embds, pred[1].pred_embds, pred[1].pred_embds>>
    /\ match_calls # <<>> =>
        LET k == Len(match_calls)
            call == match_calls[k]
            refs == <<HistoryEntry(k - 3), HistoryEntry(k - 2), HistoryEntry(k - 1)>>
        IN /\ call.frame = k
           /\ call.cur_embds = pred[k + 1].pred_embds
           /\ call.tgt_embds = refs
           /\ \A q \in MQ : \A j \in MQ : call.C[q][j] = TrackCost(refs, call.cur_embds, j, q)

\* C7 witness: frame 3 has been matched against three pairwise different
\* history entries, none of them frame 0 as read after the first.
C7_Witness ==
    /\ Len(match_calls) >= 3
    /\ match_calls[3].tgt_embds[1] = pred[1].pred_embds
    /\ match_calls[3].tgt_embds[1] # match_calls[3].tgt_embds[2]
    /\ match_calls[3].tgt_embds[2] # match_calls[3].tgt_embds[3]
    /\ match_calls[3].tgt_embds[1] # match_calls[3].tgt_embds[3]
    /\ match_calls[3].tgt_embds[2] # pred[2].pred_embds

(***************************************************************************)
(* Properties of inference_video.                                          *)
(***************************************************************************)
Returned == vpc = "returned" /\ topk_indices # None

\* The softmax score of class c for query q, as a fraction.
PairScore(q, c) ==
    <<Exp(pred_cls[q][c]), SumOver([c2 \in ClassIdx |-> Exp(pred_cls[q][c2])], ClassIdx)>>

Pairs == (DOMAIN pred_cls) \X (0 .. (NumClasses - 1))

\* C9: prediction k, selected at flat index f, has label f mod num_classes,
\* the masks of query f div num_classes and the score of that (query, class)
\* pair; no label is the "no object" class; and when one pair outscores all
\* others, the best returned prediction has that pair's class and masks.
C9_TopKAlignment ==
    Returned =>
        /\ \A k \in 1 .. max_num :
            LET f == topk_indices[k]
            IN /\ video_output.pred_labels[k] = f % NumClasses
               /\ video_output.pred_labels[k] < NumClasses
               /\ video_output.pred_masks[k]
                    = [size |-> out_size,
                       on |-> [t \in 1 .. MaskFrames |->
                                  pred_masks[f \div NumClasses][t] > 0]]
               /\ video_output.pred_scores[k][1] * PairScore(f \div NumClasses, f % NumClasses)[2]
                    = PairScore(f \div NumClasses, f % NumClasses)[1] * video_output.pred_scores[k][2]
        /\ DOMAIN video_output.pred_labels = 1 .. max_num
        /\ DOMAIN video_output.pred_masks = 1 .. max_num
        /\ DOMAIN video_output.pred_scores = 1 .. max_num
        /\ \A best \in Pairs :
            (\A other \in Pairs \ {best} :
                ~FracLeq(PairScore(best[1], best[2]), PairScore(other[1], other[2])))
            => \E k \in 1 .. max_num :
                /\ \A k2 \in 1 .. max_num :
                    FracLeq(video_output.pred_scores[k2], video_output.pred_scores[k])
                /\ video_output.pred_labels[k] = best[2]
                /\ video_output.pred_masks[k].on
                    = [t \in 1 .. MaskFrames |-> pred_masks[best[1]][t] > 0]

\* C9 witness: two predictions were returned, one pair outscores all others,
\* it belongs to the last query and is not that query's class 0.
C9_Witness ==
    /\ Returned
    /\ max_num = 2
    /\ \E best \in Pairs :
        /\ best[1] = NumQueries - 1
        /\ best[2] > 0
        /\ \A other \in Pairs \ {best} :
            ~FracLeq(PairScore(best[1], best[2]), PairScore(other[1], other[2]))
        /\ video_output.pred_labels[1] = best[2]

\* C10: with zero queries the call returns, never raises, and returns empty
\* score, label and mask lists and image_size = (output_height, output_width).
C10_ZeroQueries ==
    (Cardinality(DOMAIN pred_cls) = 0 /\ vpc \notin {"call", "idle"}) =>
        /\ vpc = "returned"
        /\ video_output.pred_scores = <<>>
        /\ video_output.pred_labels = <<>>
        /\ video_output.pred_masks = <<>>
        /\ video_output.image_size = out_size

\* C10 witness: a call with zero queries has returned.
C10_Witness ==
    /\ Cardinality(DOMAIN pred_cls) = 0
    /\ vpc = "returned"
    /\ video_output # None
    /\ max_num >= 1

\* C11: the scores inference_video returns are in non-increasing order, so
\* the first returned prediction is the highest-scoring (query, class) pair.
C11_RankedScores ==
    Returned =>
        \A k \in 1 .. (max_num - 1) :
            FracLeq(video_output.pred_scores[k + 1], video_output.pred_scores[k])

(***************************************************************************)
(* Properties of QueryTracker.forward.                                     *)
(***************************************************************************)
\* C12: with the same input and weights, the tracker with
\* detach_frame_connection = TRUE and the one with FALSE hold the same values
\* at every step: the carried state, the recorded layer outputs, and the
\* returned pred_logits, pred_masks, pred_embds and aux_outputs.
C12_DetachKeepsValues ==
    tpc # "idle" =>
        /\ t_output[TRUE] = t_output[FALSE]
        /\ t_ms_output[TRUE] = t_ms_output[FALSE]
        /\ t_outputs[TRUE] = t_outputs[FALSE]
        /\ t_out # None =>
            /\ t_out[TRUE].pred_logits = t_out[FALSE].pred_logits
            /\ t_out[TRUE].pred_masks = t_out[FALSE].pred_masks
            /\ t_out[TRUE].pred_embds = t_out[FALSE].pred_embds
            /\ t_out[TRUE].aux_outputs = t_out[FALSE].aux_outputs

\* C12 witness: both trackers have returned from a seeded call on two frames,
\* the state detached after frame 0 was not all zero, and frame 1 was run on it.
C12_Witness ==
    /\ tpc = "done"
    /\ t_init_query # None
    /\ Len(t_frame_embeds) >= 2
    /\ t_out # None
    /\ \E q \in Queries : t_outputs[TRUE][1][NumLayers][q] # 0
    /\ Len(t_out[TRUE].pred_embds) = Len(t_frame_embeds)

\* What the feed-forward step of a decoder layer left at a frame, in the
\* tracker with flag d.
FfnLeft(d, frame, layer) ==
    LET k == CHOOSE n \in DOMAIN t_log :
                 t_log[n].step = "ffn" /\ t_log[n].frame = frame
                     /\ t_log[n].layer = layer
    IN t_log[k].left[d]

\* The class and mask predictions made from decoder layer j alone.
LayerLogits(d, j) ==
    [t \in 1 .. Len(t_frame_embeds) |->
        [q \in Queries |->
            [c \in ClassIdx |->
                (((FfnLeft(d, t - 1, j)[q] + 1) % Modulus) * (c + 1) + c) % Modulus]]]

LayerMasks(d, j) ==
    [t \in 1 .. Len(t_frame_embeds) |->
        [q \in Queries |->
            LET x == (FfnLeft(d, t - 1, j)[q] + 1) % Modulus
            IN (((x * x + 2) % Modulus) * ((2 * t_mask_features[t] + 1) % Modulus))
                   % Modulus]]

\* C13: the returned pred_logits and pred_masks are the predictions of the
\* last decoder layer, and aux_outputs has exactly L - 1 entries, entry j
\* holding the predictions of layer j for j = 0 .. L - 2 in layer order, so
\* the last layer has no entry there.
C13_LastLayerAndAux ==
    tpc = "done" =>
        \A d \in BOOLEAN :
            /\ t_out[d].pred_logits = LayerLogits(d, NumLayers - 1)
            /\ t_out[d].pred_masks = LayerMasks(d, NumLayers - 1)
            /\ DOMAIN t_out[d].aux_outputs = 1 .. (NumLayers - 1)
            /\ \A j \in 0 .. (NumLayers - 2) :
                /\ t_out[d].aux_outputs[j + 1].pred_logits = LayerLogits(d, j)
                /\ t_out[d].aux_outputs[j + 1].pred_masks = LayerMasks(d, j)

\* C13 witness: a call on two frames has returned, and the first layer's
\* predictions, kept in aux_outputs, differ from the returned ones.
C13_Witness ==
    /\ tpc = "done"
    /\ Len(t_frame_embeds) = 2
    /\ Len(t_out[TRUE].aux_outputs) = NumLayers - 1
    /\ t_out[TRUE].aux_outputs[1].pred_logits # t_out[TRUE].pred_logits
    /\ t_out[TRUE].aux_outputs[1].pred_masks # t_out[TRUE].pred_masks

\* The steps of one frame: three per decoder layer, then the projection.
StepsPerFrame == 3 * NumLayers + 1

\* The step that comes k-th (k = 1, 2, ...) when frames are taken in temporal
\* order and, within a frame, the layers in order, each as cross-attend,
\* self-attend, feed-forward, with the projection closing the frame.
StepInOrder(k) ==
    LET r == (k - 1) % StepsPerFrame
    IN [frame |-> (k - 1) \div StepsPerFrame,
        layer |-> IF r = 3 * NumLayers THEN NumLayers - 1 ELSE r \div 3,
        step |-> IF r = 3 * NumLayers THEN "proj"
                 ELSE <<"cross", "self", "ffn">>[(r % 3) + 1]]

\* C14: the tracker starts from the learned table without a seed and from
\* the projected seed with one; its steps come in temporal order, every layer
\* of a frame in order as cross-attend, self-attend, feed-forward, each step
\* reading what the one before left; all L layer outputs of a finished frame
\* are recorded; and frame i >= 1 starts from the projection of frame i-1's
\* last-layer output.
C14_FramesInOrder ==
    tpc # "idle" =>
        \A d \in BOOLEAN :
            /\ LET entry == IF t_log = <<>> THEN t_output[d] ELSE t_log[1].read[d]
               IN entry = IF t_init_query = None
                          THEN [q \in Queries |-> (q + 1) % Modulus]
                          ELSE [q \in Queries |-> (3 * t_init_query[q] + 1) % Modulus]
            /\ \A k \in DOMAIN t_log :
                LET e == t_log[k]
                IN /\ e.frame = StepInOrder(k).frame
                   /\ e.layer = StepInOrder(k).layer
                   /\ e.step = StepInOrder(k).step
                   /\ k > 1 => e.read = t_log[k - 1].left
                   /\ e.step = "cross" =>
                        e.left[d] = CrossAttentionLayer(e.layer, e.read[d],
                                        t_frame_embeds[e.frame + 1], query_embed)
                   /\ e.step = "self" =>
                        e.left[d] = SelfAttentionLayer(e.layer, e.read[d], query_embed)
                   /\ e.step = "ffn" => e.left[d] = FFNLayer(e.layer, e.read[d])
                   /\ e.step = "proj" =>
                        /\ e.left[d] = frame_proj(e.read[d])
                        /\ e.read[d] = t_outputs[d][e.frame + 1][NumLayers]
                        /\ Len(t_outputs[d][e.frame + 1]) = NumLayers
                        /\ \A j \in 0 .. (NumLayers - 1) :
                            t_outputs[d][e.frame + 1][j + 1] = FfnLeft(d, e.frame, j)
                   /\ (e.step = "cross" /\ e.layer = 0 /\ e.frame >= 1) =>
                        e.read[d] = frame_proj(t_outputs[d][e.frame][NumLayers])
            /\ t_log # <<>> => t_output = t_log[Len(t_log)].left
            /\ Len(t_outputs[d]) = t_i
            /\ Len(t_frame_embeds) >= t_i

\* C14 witness: a seeded call has started its second frame, whose first
\* cross-attention read a state other than the last-layer output of frame 0.
C14_Witness ==
    /\ tpc = "self"
    /\ t_i = 1
    /\ t_j = 0
    /\ t_init_query # None
    /\ t_log[Len(t_log)].step = "cross"
    /\ t_log[Len(t_log)].read[TRUE] # t_outputs[TRUE][1][NumLayers]

(***************************************************************************)
(* The reordering in post_processing_.                                     *)
(***************************************************************************)
\* C15: at every frame i >= 1 the permutation the matcher returned for that
\* frame reorders the frame's logits, masks and embeddings alike, and the
\* history receives the reordered embeddings; so at every frame, slot j of the
\* output logits, of the output masks and of the history hold the same
\* original query of that frame.
C15_SamePermutationEverywhere ==
    /\ \A k \in DOMAIN match_calls :
        LET ind == match_calls[k].indices
            f == pred[k + 1]
        IN \A j \in MQ :
            /\ out_logits[k + 1][j] = f.pred_logits[ind[j]]
            /\ out_masks[k + 1][j] = f.pred_masks[ind[j]]
            /\ out_embds[k + 3][j] = f.pred_embds[ind[j]]
    /\ \A t \in DOMAIN out_logits :
        \A j \in MQ :
            LET original == out_masks[t][j][2]
            IN /\ out_masks[t][j][1] = t - 1
               /\ out_logits[t][j] = pred[t].pred_logits[original]
               /\ out_embds[t + 2][j] = pred[t].pred_embds[original]
    /\ Len(out_masks) = Len(out_logits)
    /\ out_logits # <<>> => Len(out_embds) = Len(out_logits) + 2
    /\ pp_outputs # None =>
        \A j \in MQ : \A t \in DOMAIN out_masks :
            pp_outputs.pred_masks[j][t] = out_masks[t][j]

\* C15 witness: the clip is finished, and frame 2 was reordered by a
\* permutation that moves every query and is not its own inverse.
C15_Witness ==
    /\ ppc = "done"
    /\ Len(match_calls) >= 2
    /\ \A j \in MQ : match_calls[2].indices[j] # j
    /\ \E j \in MQ : match_calls[2].indices[match_calls[2].indices[j]] # j
    /\ out_masks[3] = [j \in MQ |-> <<2, match_calls[2].indices[j]>>]

(***************************************************************************)
(* What run_window_inference still holds between two chunks.               *)
(***************************************************************************)
\* The backbone features some name or dict entry still refers to.
BackboneFeaturesLive ==
    features # None /\ \E t \in DOMAIN features : features[t] # <<>>

\* The mask features some name or dict entry still refers to: the local
\* mask_features, or the entry of the head's output dict it was taken from.
MaskFeaturesLive ==
    \/ mask_features # None
    \/ out # None /\ "mask_features" \in DOMAIN out

\* C16: once a chunk is processed and before the next chunk's features are
\* computed, its backbone features, its mask features and the masks and
\* logits of its auxiliary outputs are released, and out_list keeps only
\* pred_logits, pred_masks and pred_embds for it.
C16_ReleasedBetweenChunks ==
    (wpc = "loop" /\ i >= 1 /\ i < Iters(Len(images_tensor), window_size)) =>
        /\ ~BackboneFeaturesLive
        /\ ~MaskFeaturesLive
        /\ \A k \in DOMAIN out_list :
            /\ \A l \in DOMAIN out_list[k].aux_outputs :
                out_list[k].aux_outputs[l] = <<>>
            /\ DOMAIN out_list[k]
                = {"pred_logits", "pred_masks", "pred_embds", "aux_outputs"}

====
